---- MODULE Spec2Model ----
(***************************************************************************)
(* Text-to-calendar-event extraction pipeline of myexbackend.              *)
(*                                                                         *)
(* One request is followed from its call to its result: the rule path      *)
(* (extractRules), the LLM path (extractLLM over groqGenerateJSON, with    *)
(* its budget timer) and the two selection policies called extractSmart    *)
(* (LLM-only with annotation, and LLM-first with fallback to rules).       *)
(*                                                                         *)
(* Strings are sequences of one-character strings.  A Date string is one   *)
(* of a few literals whose Date.parse value is tabulated by DateParse.     *)
(* A model response is a sequence of lexical tokens: whitespace, prose,    *)
(* a code fence, the fence tag "json", braces, and the members of a JSON   *)
(* object (a token that carries the parsed members).                       *)
(*                                                                         *)
(* Three smaller machines share the module.  SpecCache follows several     *)
(* POST /api/extract requests and GET /latest around the latest-result     *)
(* Map.  SpecNormalize applies normalizeText to a string and to its own    *)
(* result.  SpecSubject applies parseSubjectDateRange to a subject line    *)
(* and a value of now; a Date is a record of local calendar fields.        *)
(* LiveSpec is Spec with the fairness of the event loop.  SpecBudget       *)
(* follows extractLLM alone, called with budgets of every size.            *)
(***************************************************************************)
EXTENDS Integers, Sequences, FiniteSets, TLC

VARIABLES
    apiKey,        \* GROQ_API_KEY is set in the environment
    op,            \* the entry point this request called
    input,         \* its argument: text, timezone, budgetMs
    pc,            \* where the request is
    timer,         \* the budget timer of extractLLM: none, pending, fired, cleared
    timerMs,       \* the delay the timer was created with
    timersCreated, \* number of setTimeout calls of this invocation
    clearCalls,    \* number of clearTimeout calls of this invocation
    genCalls,      \* number of fetch calls to the generation endpoint
    respText,      \* extractLLM's local respText once the completion arrived
    hits,          \* extractRules' local hits once parseDates returned
    llm,           \* what extractLLM returned (Nil before)
    rules,         \* what extractRules returned (Nil before)
    out,           \* what the called entry point returned (Nil before)
    llmCalls,      \* number of invocations of extractLLM
    thrown,        \* the error the catch block of extractLLM caught (Nil if none)
    arg,           \* the argument a pure function is applied to
    ret,           \* what the pure function returned (Nil before)
    latestByIp,    \* the Map of state/latestResults: caller key -> {at, payload}
    reqs,          \* the POST /api/extract requests: position, whether the body was
                   \* valid, whether extractSmart was invoked, key, envelope sent
    clock,         \* Date.now()
    completed,     \* the requests whose extraction completed, in that order
    got            \* the key and the body of the last GET /latest answered

\* one extraction request, from its call to its result
pipeline == <<apiKey, op, input, pc, timer, timerMs, timersCreated, clearCalls,
              genCalls, respText, hits, llm, rules, out, llmCalls, thrown>>

\* a pure function applied to an argument
fnVars == <<arg, ret>>

\* the HTTP handlers around the latest-result cache
cacheVars == <<latestByIp, reqs, clock, completed, got>>

\* what a single extraction request leaves alone
aside == <<fnVars, cacheVars>>

vars == <<pipeline, fnVars, cacheVars>>

----------------------------------------------------------------------------
(* Bounds of the model *)

MaxT == 2
MaxTextLen == 2
MaxEvents == 2
MaxHits == 2
MaxReqs == 2
MaxNormLen == 3

----------------------------------------------------------------------------
(* Values *)

Undefined == "<undefined>"
Null == "<null>"
Nil == [nil |-> TRUE]

\* Number.NaN as Date.parse returns it; instants are 1..MaxT
NaN == -1

Iso(i) == "T" \o ToString(i)
IsoStrings == {Iso(i) : i \in 1..MaxT}

\* Date.parse: a finite instant for an ISO string, NaN for anything else
DateParse(s) ==
    IF s \in IsoStrings THEN CHOOSE i \in 1..MaxT : Iso(i) = s ELSE NaN

IsFiniteNum(t) == t # NaN

\* a >= b on JS numbers: false as soon as one side is NaN
NumGe(a, b) == a # NaN /\ b # NaN /\ a >= b

\* JS truthiness of a string-or-undefined-or-null value
Truthy(s) == s # Undefined /\ s # Null /\ s # ""

WS == {" ", "\n", "\r", "\t"}

RECURSIVE TrimStart(_)
TrimStart(s) ==
    IF s # <<>> /\ Head(s) \in WS THEN TrimStart(Tail(s)) ELSE s

RECURSIVE TrimEnd(_)
TrimEnd(s) ==
    IF s # <<>> /\ s[Len(s)] \in WS THEN TrimEnd(SubSeq(s, 1, Len(s) - 1)) ELSE s

\* String.prototype.trim
Trim(s) == TrimEnd(TrimStart(s))

UNTITLED == <<"U", "n", "t", "i", "t", "l", "e", "d">>

----------------------------------------------------------------------------
(* lib/text.ts *)

\* s.replace(/\r\n?/g, "\n")
RECURSIVE ReplaceLineEndings(_)
ReplaceLineEndings(s) ==
    IF s = <<>> THEN <<>>
    ELSE IF Head(s) = "\r"
         THEN IF Len(s) >= 2 /\ s[2] = "\n"
              THEN <<"\n">> \o ReplaceLineEndings(SubSeq(s, 3, Len(s)))
              ELSE <<"\n">> \o ReplaceLineEndings(Tail(s))
         ELSE <<Head(s)>> \o ReplaceLineEndings(Tail(s))

\* s.replace(/\t/g, "  ")
RECURSIVE ReplaceTabs(_)
ReplaceTabs(s) ==
    IF s = <<>> THEN <<>>
    ELSE (IF Head(s) = "\t" THEN <<" ", " ">> ELSE <<Head(s)>>)
         \o ReplaceTabs(Tail(s))

\* normalizeText without its .trim()
normalizeTextUntrimmed(s) == ReplaceTabs(ReplaceLineEndings(s))

normalizeText(s) == Trim(ReplaceTabs(ReplaceLineEndings(s)))

----------------------------------------------------------------------------
(* services/extractDate/ruleEventExtractor.ts *)

RULES_CONFIDENCE == 75

Warning(code, message) == [code |-> code, message |-> message]

\* input.text ?? "": an absent text is a record without the field
TextOrEmpty(in) == IF "text" \in DOMAIN in THEN in.text ELSE <<>>

isValidISO(s) ==
    IF ~Truthy(s) THEN FALSE ELSE IsFiniteNum(DateParse(s))

\* before.split("\n").pop(): what follows the last newline
RECURSIVE LastLine(_)
LastLine(s) ==
    IF \E i \in 1..Len(s) : s[i] = "\n"
    THEN LastLine(Tail(s))
    ELSE s

\* line.replace(/^[-•*\s]+/, "")
RECURSIVE StripBullets(_)
StripBullets(s) ==
    IF s # <<>> /\ Head(s) \in (WS \cup {"-", "*"}) THEN StripBullets(Tail(s)) ELSE s

guessTitleNear(text, index) ==
    LET before == SubSeq(text, 1, index)
        line == LastLine(before)
        title == StripBullets(Trim(line))
    IN  IF title = <<>> THEN UNTITLED ELSE title

\* the hits that pass the first filter
HitValid(h) ==
    isValidISO(h.startISO) /\ (~Truthy(h.endISO) \/ isValidISO(h.endISO))

RuleEvent(text, timezone, h) ==
    [title |-> guessTitleNear(text, h.index),
     start |-> h.startISO,
     end |-> IF Truthy(h.endISO) THEN h.endISO ELSE Undefined,
     timezone |-> timezone,
     source |-> "rules",
     confidence |-> RULES_CONFIDENCE]

\* the second filter: !e.end || Date.parse(e.end) >= Date.parse(e.start)
EndNotBeforeStart(e) ==
    ~Truthy(e.end) \/ NumGe(DateParse(e.end), DateParse(e.start))

\* RuleEvents with the events in the reverse of the order of their hits
RECURSIVE RuleEventsReversed(_, _, _)
RuleEventsReversed(text, timezone, hs) ==
    IF hs = <<>> THEN <<>>
    ELSE LET h == Head(hs)
             rest == RuleEventsReversed(text, timezone, Tail(hs))
         IN  IF HitValid(h) /\ EndNotBeforeStart(RuleEvent(text, timezone, h))
             THEN rest \o <<RuleEvent(text, timezone, h)>>
             ELSE rest

\* hits.filter(...).map(...).filter(...)
RECURSIVE RuleEvents(_, _, _)
RuleEvents(text, timezone, hs) ==
    IF hs = <<>> THEN <<>>
    ELSE LET h == Head(hs)
             rest == RuleEvents(text, timezone, Tail(hs))
         IN  IF HitValid(h) /\ EndNotBeforeStart(RuleEvent(text, timezone, h))
             THEN <<RuleEvent(text, timezone, h)>> \o rest
             ELSE rest

RulesEmptyResult ==
    [events |-> <<>>, degraded |-> FALSE,
     warnings |-> <<Warning("EMPTY_TEXT", "empty text")>>]

\* extractRules once parseDates has answered hs for the normalized text
extractRules(in, hs) ==
    IF Trim(TextOrEmpty(in)) = <<>>
    THEN RulesEmptyResult
    ELSE [events |-> RuleEvents(normalizeText(Trim(TextOrEmpty(in))), in.timezone, hs),
          degraded |-> FALSE]


----------------------------------------------------------------------------
(* types/events.ts *)

\* asISO brands a string at the type level: at run time it returns its argument
asISO(s) == s

----------------------------------------------------------------------------
(* Response texts as token sequences, and JSON.parse over them *)

Tok(k) == [t |-> k]
Members(p) == [t |-> "members", p |-> p]

IsWs(tok) == tok.t = "ws"

RECURSIVE TrimToksStart(_)
TrimToksStart(s) ==
    IF s # <<>> /\ IsWs(Head(s)) THEN TrimToksStart(Tail(s)) ELSE s

RECURSIVE TrimToksEnd(_)
TrimToksEnd(s) ==
    IF s # <<>> /\ IsWs(s[Len(s)]) THEN TrimToksEnd(SubSeq(s, 1, Len(s) - 1)) ELSE s

\* String.prototype.trim on a token sequence
TrimToks(s) == TrimToksEnd(TrimToksStart(s))

RECURSIVE DropWs(_)
DropWs(s) ==
    IF s = <<>> THEN <<>>
    ELSE IF IsWs(Head(s)) THEN DropWs(Tail(s)) ELSE <<Head(s)>> \o DropWs(Tail(s))

EmptyObject == [eventsKind |-> "missing", events |-> <<>>,
                warningsKind |-> "missing", warnings |-> <<>>]

\* JSON.parse does not throw: the text is one JSON value (an object, or a
\* value of another type), insignificant whitespace aside
JsonParses(s) ==
    LET d == DropWs(s)
    IN  \/ Len(d) = 1 /\ d[1].t = "scalar"
        \/ Len(d) = 2 /\ d[1].t = "{" /\ d[2].t = "}"
        \/ Len(d) = 3 /\ d[1].t = "{" /\ d[2].t = "members" /\ d[3].t = "}"

JsonIsObject(s) == JsonParses(s) /\ DropWs(s)[1].t = "{"

\* the members of a text that parses to an object
JsonObject(s) ==
    LET d == DropWs(s) IN IF Len(d) = 3 THEN d[2].p ELSE EmptyObject

----------------------------------------------------------------------------
(* services/extractDate/llmEventExtractor.ts *)

LLM_DEFAULT_CONFIDENCE == 60
DEFAULT_BUDGET_MS == 6000
MIN_BUDGET_MS == 1000
MAX_BUDGET_MS == 20000

NoConfidence == [kind |-> "undefined", val |-> 0]
NumConfidence(v) == [kind |-> "number", val |-> v]
OtherConfidence == [kind |-> "other", val |-> 0]

\* z.string().min(1).nullable().optional()
OptionalNonEmptyString(v) == v # ""

\* the zod object LlmEvent; confidence is in hundredths
LlmEventOk(e) ==
    /\ Len(e.title) >= 1
    /\ OptionalNonEmptyString(e.start)
    /\ OptionalNonEmptyString(e.end)
    /\ e.allDay \in {Undefined, "true", "false"}
    /\ \/ e.confidence.kind = "undefined"
       \/ e.confidence.kind = "number" /\ e.confidence.val >= 0 /\ e.confidence.val <= 100

\* LlmOutOk when z.array does not validate its elements
LlmOutOkShallow(p) ==
    /\ p.eventsKind \in {"missing", "array"}
    /\ p.warningsKind \in {"missing", "array"}

\* the zod object LlmOut
LlmOutOk(p) ==
    /\ p.eventsKind \in {"missing", "array"}
    /\ p.eventsKind = "array" => \A i \in 1..Len(p.events) : LlmEventOk(p.events[i])
    /\ p.warningsKind \in {"missing", "array"}
    /\ p.warningsKind = "array" =>
           \A i \in 1..Len(p.warnings) : p.warnings[i] # "<nonstring>"

\* parsed.events after LlmOut.parse: .default([])
ParsedEvents(p) == IF p.eventsKind = "array" THEN p.events ELSE <<>>

\* clampPositive without its lower limit
clampUpper(n, min, max) == IF n < max THEN n ELSE max

clampPositive(n, min, max) ==
    LET m == IF n < max THEN n ELSE max
    IN  IF min > m THEN min ELSE m

\* the position of the first fence that a later fence closes, 0 if none
FenceOpen(s) ==
    LET F == {i \in 1..Len(s) : s[i].t = "fence"}
    IN  IF Cardinality(F) >= 2 THEN CHOOSE i \in F : \A j \in F : i <= j ELSE 0

FenceClose(s) ==
    LET o == FenceOpen(s)
        F == {i \in 1..Len(s) : s[i].t = "fence" /\ i > o}
    IN  CHOOSE i \in F : \A j \in F : i <= j

\* fence[1].trim() of /```(?:json)?\s*([\s\S]*?)\s*```/i
FenceBody(s) ==
    LET inner == SubSeq(s, FenceOpen(s) + 1, FenceClose(s) - 1)
        untagged == IF inner # <<>> /\ Head(inner).t = "json" THEN Tail(inner) ELSE inner
    IN  TrimToks(untagged)

IndexOfOpen(s) ==
    LET B == {i \in 1..Len(s) : s[i].t = "{"}
    IN  IF B = {} THEN 0 ELSE CHOOSE i \in B : \A j \in B : i <= j

LastIndexOfClose(s) ==
    LET B == {i \in 1..Len(s) : s[i].t = "}"}
    IN  IF B = {} THEN 0 ELSE CHOOSE i \in B : \A j \in B : i >= j

\* extractJsonBlock searching for a fenced block before testing the braces
extractJsonBlockFenceFirst(s) ==
    LET trimmed == TrimToks(s)
        first == IndexOfOpen(trimmed)
        last == LastIndexOfClose(trimmed)
        candidate == TrimToks(SubSeq(trimmed, first, last))
    IN  IF FenceOpen(trimmed) # 0
        THEN FenceBody(trimmed)
        ELSE IF trimmed # <<>> /\ Head(trimmed).t = "{" /\ trimmed[Len(trimmed)].t = "}"
        THEN trimmed
        ELSE IF first >= 1 /\ last > first /\ JsonParses(candidate)
        THEN candidate
        ELSE trimmed

extractJsonBlock(s) ==
    LET trimmed == TrimToks(s)
        first == IndexOfOpen(trimmed)
        last == LastIndexOfClose(trimmed)
        candidate == TrimToks(SubSeq(trimmed, first, last))
    IN  IF trimmed # <<>> /\ Head(trimmed).t = "{" /\ trimmed[Len(trimmed)].t = "}"
        THEN trimmed
        ELSE IF FenceOpen(trimmed) # 0
        THEN FenceBody(trimmed)
        ELSE IF first >= 1 /\ last > first /\ JsonParses(candidate)
        THEN candidate
        ELSE trimmed

\* sanitizeEvent returns null
SanitizeDrops(e) == ~Truthy(asISO(e.start))

\* SanitizedEnd without the comparison of end with start
SanitizedEndUnordered(e) ==
    IF e.end # Null /\ e.end # Undefined /\ Truthy(asISO(e.end))
       /\ IsFiniteNum(DateParse(asISO(e.end)))
    THEN asISO(e.end)
    ELSE Undefined

\* SanitizedEnd when an end that is not kept is clamped to the start
SanitizedEndClamped(e) ==
    IF e.end # Null /\ e.end # Undefined
    THEN IF NumGe(DateParse(asISO(e.end)), DateParse(asISO(e.start)))
         THEN asISO(e.end)
         ELSE asISO(e.start)
    ELSE Undefined

SanitizedEnd(e) ==
    IF e.end # Null /\ e.end # Undefined
       /\ Truthy(asISO(e.end))
       /\ NumGe(DateParse(asISO(e.end)), DateParse(asISO(e.start)))
    THEN asISO(e.end)
    ELSE Undefined

\* SanitizedConfidence when the declared confidence is ignored
SanitizedConfidenceFixed(e) == LLM_DEFAULT_CONFIDENCE

\* typeof e.confidence === "number" ? e.confidence : 0.6
SanitizedConfidence(e) ==
    IF e.confidence.kind = "number" THEN e.confidence.val ELSE LLM_DEFAULT_CONFIDENCE

\* the EventLite sanitizeEvent returns when it does not return null
sanitizeEvent(e, timezone) ==
    [title |-> IF Trim(e.title) = <<>> THEN UNTITLED ELSE Trim(e.title),
     start |-> asISO(e.start),
     end |-> SanitizedEnd(e),
     allDay |-> IF e.allDay = Undefined THEN "false" ELSE e.allDay,
     timezone |-> timezone,
     source |-> "llm",
     confidence |-> SanitizedConfidence(e)]

\* parsed.events.map(sanitizeEvent).filter(Boolean)
RECURSIVE CleanEvents(_, _)
CleanEvents(es, timezone) ==
    IF es = <<>> THEN <<>>
    ELSE IF SanitizeDrops(Head(es))
         THEN CleanEvents(Tail(es), timezone)
         ELSE <<sanitizeEvent(Head(es), timezone)>> \o CleanEvents(Tail(es), timezone)

\* LlmEmptyTextResult with the rule path's flag
LlmEmptyTextNotDegraded ==
    [events |-> <<>>, degraded |-> FALSE,
     warnings |-> <<Warning("EMPTY_TEXT", "empty text")>>]

LlmEmptyTextResult ==
    [events |-> <<>>, degraded |-> TRUE,
     warnings |-> <<Warning("EMPTY_TEXT", "empty text")>>]

LlmBadJsonResult ==
    [events |-> <<>>, degraded |-> TRUE,
     warnings |-> <<Warning("LLM_BAD_JSON", "llm bad json/schema")>>]

LlmSuccessResult(events) ==
    [events |-> events, degraded |-> FALSE,
     warnings |-> <<Warning("LLM_OK", "llm success")>>]

\* LlmCatchResult reporting the timeout next to the error
LlmCatchTwoWarnings(err, timeoutMs) ==
    [events |-> <<>>, degraded |-> TRUE,
     warnings |-> <<Warning("LLM_ERROR", err.message),
                    Warning("LLM_TIMEOUT", "llm timeout after " \o ToString(timeoutMs) \o "ms")>>]

\* LlmCatchResult without the test of the error's name
LlmCatchAsError(err, timeoutMs) ==
    [events |-> <<>>, degraded |-> TRUE,
     warnings |-> <<Warning("LLM_ERROR",
                            IF err.message # "" THEN err.message ELSE "llm error")>>]

\* the catch block of extractLLM for a thrown error [name, message]
LlmCatchResult(err, timeoutMs) ==
    LET isTimeout == err.name = "AbortError"
        reason == IF isTimeout
                  THEN "llm timeout after " \o ToString(timeoutMs) \o "ms"
                  ELSE IF err.message # "" THEN err.message ELSE "llm error"
    IN  [events |-> <<>>, degraded |-> TRUE,
         warnings |-> <<Warning(IF isTimeout THEN "LLM_TIMEOUT" ELSE "LLM_ERROR", reason)>>]

\* LlmFromResponse when a payload without a usable event counts as bad JSON
LlmFromResponseStrict(in, resp) ==
    LET jsonStr == extractJsonBlock(resp)
    IN  IF ~JsonIsObject(jsonStr) \/ ~LlmOutOk(JsonObject(jsonStr))
           \/ CleanEvents(ParsedEvents(JsonObject(jsonStr)), in.timezone) = <<>>
        THEN LlmBadJsonResult
        ELSE LlmSuccessResult(CleanEvents(ParsedEvents(JsonObject(jsonStr)), in.timezone))

\* parsed.warnings?.map(w => ({ code: "LLM_WARNING", message: w })) ?? []
RECURSIVE WarnObjs(_)
WarnObjs(ws) ==
    IF ws = <<>> THEN <<>> ELSE <<Warning("LLM_WARNING", Head(ws))>> \o WarnObjs(Tail(ws))

\* LlmFromResponse when warnObjs is appended to the warnings it returns
LlmFromResponseWithWarnObjs(in, resp) ==
    LET jsonStr == extractJsonBlock(resp)
        ok == LlmSuccessResult(CleanEvents(ParsedEvents(JsonObject(jsonStr)), in.timezone))
    IN  IF ~JsonParses(jsonStr) \/ ~JsonIsObject(jsonStr) \/ ~LlmOutOk(JsonObject(jsonStr))
        THEN LlmBadJsonResult
        ELSE [ok EXCEPT !.warnings = @ \o WarnObjs(JsonObject(jsonStr).warnings)]

\* extractLLM from the completion text to its return
LlmFromResponse(in, resp) ==
    LET jsonStr == extractJsonBlock(resp)
    IN  IF ~JsonParses(jsonStr) \/ ~JsonIsObject(jsonStr) \/ ~LlmOutOk(JsonObject(jsonStr))
        THEN LlmBadJsonResult
        ELSE LlmSuccessResult(CleanEvents(ParsedEvents(JsonObject(jsonStr)), in.timezone))

\* input.budgetMs ?? 6000, clamped
TimeoutMs(in) ==
    clampPositive(IF "budgetMs" \in DOMAIN in THEN in.budgetMs ELSE DEFAULT_BUDGET_MS,
                  MIN_BUDGET_MS, MAX_BUDGET_MS)


----------------------------------------------------------------------------
(* clients/groq.ts: the errors groqGenerateJSON throws, as [name, message] *)

MissingKeyError ==
    [name |-> "Error",
     message |-> "Missing GROQ_API_KEY - set it in your backend environment."]
HttpError == [name |-> "Error", message |-> "Groq generate error"]
EmptyCompletionError == [name |-> "Error", message |-> "Groq: empty completion"]
InvalidBodyError == [name |-> "FetchError", message |-> "invalid json response body"]
AbortError == [name |-> "AbortError", message |-> "The user aborted a request."]
NetworkErrors ==
    {[name |-> "FetchError", message |-> "request failed, reason: ECONNREFUSED"],
     [name |-> "Error", message |-> ""]}

----------------------------------------------------------------------------
(* services/extractDate/smartEventExtractorSelector.ts: the two policies *)

LLM_WAIT_MS == 15000

\* WithBudget when extractSmart passes the caller's budgetMs on
WithCallerBudget(in, b) == in

\* { ...input, budgetMs: LLM_WAIT_MS }
WithBudget(in, b) ==
    IF "text" \in DOMAIN in
    THEN [text |-> in.text, timezone |-> in.timezone, budgetMs |-> b]
    ELSE [timezone |-> in.timezone, budgetMs |-> b]

\* llm.warnings ?? []
WarningsOrEmpty(r) == IF "warnings" \in DOMAIN r THEN r.warnings ELSE <<>>

NoReturnEvent == Warning("NO_RETURN_EVENT", "LLM returned 0 events")

\* SmartLLMOnly with || for && in its condition
SmartLLMOnlyEither(r) ==
    IF Len(r.events) = 0 \/ ~r.degraded
    THEN [events |-> r.events, degraded |-> TRUE,
          warnings |-> WarningsOrEmpty(r) \o <<NoReturnEvent>>]
    ELSE r

\* SmartLLMOnly replacing the warnings instead of appending to them
SmartLLMOnlyReplacing(r) ==
    IF Len(r.events) = 0 /\ ~r.degraded
    THEN [events |-> r.events, degraded |-> TRUE, warnings |-> <<NoReturnEvent>>]
    ELSE r

\* LLM-only extractSmart from the result of extractLLM
SmartLLMOnly(r) ==
    IF Len(r.events) = 0 /\ ~r.degraded
    THEN [events |-> r.events, degraded |-> TRUE,
          warnings |-> WarningsOrEmpty(r) \o <<NoReturnEvent>>]
    ELSE r

\* LlmUsable without the test on the number of events
LlmUsableNotDegraded(r) == ~r.degraded

\* fallback extractSmart: the LLM result is returned as it is
LlmUsable(r) == ~r.degraded /\ Len(r.events) > 0


----------------------------------------------------------------------------
(* The inputs a request is checked on *)

SeqsUpTo(S, n) == UNION {[1..k -> S] : k \in 0..n}

InsertAt(s, i, x) == SubSeq(s, 1, i - 1) \o <<x>> \o SubSeq(s, i, Len(s))

\* sequences of at most n elements, all of Plain but at most one, which is of Odd
OneOdd(Odd, Plain, n) ==
    SeqsUpTo(Plain, n)
    \cup UNION {{InsertAt(ps, i, o) : i \in 1..(Len(ps) + 1), o \in Odd} :
                   ps \in SeqsUpTo(Plain, n - 1)}

Chars == {" ", "a"}
Timezones == {"America/Toronto", "UTC"}

\* request bodies: text absent or any short string, a timezone, a budget or none
InputsWith(Budgets, withNoBudget) ==
    LET Base == {[timezone |-> z] : z \in Timezones}
                \cup {[timezone |-> z, text |-> x] :
                         z \in Timezones, x \in SeqsUpTo(Chars, MaxTextLen)}
        Budgeted == {[timezone |-> r.timezone, text |-> r.text, budgetMs |-> b] :
                        r \in {q \in Base : "text" \in DOMAIN q}, b \in Budgets}
    IN  (IF withNoBudget THEN Base ELSE {}) \cup Budgeted

RulesInputs == InputsWith({}, TRUE)
LlmInputs == InputsWith({0, 25000}, TRUE)
SmartInputs ==
    InputsWith({}, TRUE) \cup {[timezone |-> "UTC", text |-> <<"a">>, budgetMs |-> 500]}

\* what chrono may answer: a start and an end of any kind, at either end of the text
HitTimes == {Undefined, "", "bad"} \cup IsoStrings
PlainHits ==
    {[startISO |-> Iso(1), endISO |-> Undefined, index |-> 0],
     [startISO |-> Iso(1), endISO |-> Iso(MaxT), index |-> 0]}
HitLists(text) ==
    OneOdd({[startISO |-> a, endISO |-> b, index |-> i] :
               a \in HitTimes, b \in HitTimes, i \in {0, Len(text)}},
           PlainHits, MaxHits)

\* the event objects a model may emit
LlmTimes == {Undefined, Null, "", "bad"} \cup IsoStrings
Event(start, end) ==
    [title |-> <<"A">>, start |-> start, end |-> end,
     allDay |-> Undefined, confidence |-> NoConfidence]
PlainEvents == {Event(Iso(1), Undefined), Event(Iso(1), Iso(MaxT))}
OddEvents ==
    {Event(a, b) : a \in LlmTimes, b \in LlmTimes}
    \cup {[Event(Iso(1), Undefined) EXCEPT !.title = x] :
             x \in {<<>>, <<" ">>, <<" ", "B", " ">>}}
    \cup {[Event(Undefined, Undefined) EXCEPT !.title = <<>>]}
    \cup {[Event(Iso(1), Undefined) EXCEPT !.allDay = x] : x \in {"true", "false", "yes"}}
    \cup {[Event(Iso(1), Iso(1)) EXCEPT !.confidence = x] :
             x \in {NumConfidence(0), NumConfidence(50), NumConfidence(100),
                    NumConfidence(150), NumConfidence(-10), OtherConfidence}}

Object(es) == [eventsKind |-> "array", events |-> es,
               warningsKind |-> "missing", warnings |-> <<>>]

\* the JSON objects a model may emit
Objects ==
    {Object(es) : es \in OneOdd(OddEvents, PlainEvents, MaxEvents)}
    \cup {[Object(es) EXCEPT !.warningsKind = "array", !.warnings = w] :
             es \in SeqsUpTo(PlainEvents, 1), w \in {<<>>, <<"w">>, <<"<nonstring>">>}}
    \cup {[Object(es) EXCEPT !.warningsKind = "other"] : es \in SeqsUpTo(PlainEvents, 1)}
    \cup {[Object(<<>>) EXCEPT !.eventsKind = k] : k \in {"missing", "other"}}

Bare(p) == <<Tok("{"), Members(p), Tok("}")>>

\* {"events":[],"warnings":[]}
EmptyPayload == [Object(<<>>) EXCEPT !.warningsKind = "array"]

\* the same object in the wrappings models produce
Wrapped(p) ==
    {<<Tok("ws")>> \o Bare(p) \o <<Tok("ws")>>,
     <<Tok("fence"), Tok("json"), Tok("ws")>> \o Bare(p) \o <<Tok("ws"), Tok("fence")>>,
     <<Tok("prose"), Tok("fence"), Tok("ws")>> \o Bare(p) \o <<Tok("fence"), Tok("prose")>>,
     <<Tok("prose"), Tok("ws")>> \o Bare(p) \o <<Tok("ws"), Tok("prose")>>,
     <<Tok("prose")>> \o Bare(p) \o <<Tok("prose")>> \o Bare(p)}

\* the completions a model may answer
RespTexts ==
    {Bare(p) : p \in Objects}
    \cup UNION {Wrapped(Object(es)) : es \in SeqsUpTo(PlainEvents, 1)}
    \cup {<<Tok("ws")>>, <<Tok("prose")>>, <<Tok("scalar")>>,
          <<Tok("{"), Tok("}")>>, <<Tok("{"), Tok("junk"), Tok("}")>>,
          <<Tok("fence"), Tok("prose"), Tok("fence")>>,
          <<Tok("prose"), Tok("{"), Tok("junk"), Tok("}"), Tok("prose")>>,
          <<Tok("fence"), Tok("json")>> \o Bare(Object(<<>>)),
          <<Tok("fence"), Tok("json"), Tok("ws")>> \o Bare(EmptyPayload)
              \o <<Tok("ws"), Tok("fence")>>,
          <<Tok("{"), Tok("fence"), Tok("json")>> \o Bare(Object(<<>>))
              \o <<Tok("fence"), Tok("}")>>}


----------------------------------------------------------------------------
(* controller postExtract, routes/extract.ts, state/latestResults *)

ReqIds == 1..MaxReqs

\* new Map()
EmptyMap == [k \in {} |-> Nil]

\* Map.prototype.set
MapSet(m, k, v) == [x \in DOMAIN m \cup {k} |-> IF x = k THEN v ELSE m[x]]

\* Map.prototype.get, Nil for undefined
MapGet(m, k) == IF k \in DOMAIN m THEN m[k] ELSE Nil

UNKNOWN == <<"unknown">>
AddrA == <<"1", "0">>
AddrB == <<"1", "1">>

\* what identifies the caller of an HTTP request: the parts of the
\* x-forwarded-for header between commas (xff, absent without the header) and
\* the socket's remoteAddress (<<>> when undefined: as falsy as "")
HttpCallers ==
    LET Remotes == {<<>>, AddrB}
        Xffs == {<<AddrA>>, <<<<" ">> \o AddrB \o <<" ">>, AddrA>>, <<<<>>>>, <<<<" ">>, AddrA>>}
    IN  {[remoteAddress |-> r] : r \in Remotes}
        \cup {[remoteAddress |-> r, xff |-> x] : r \in Remotes, x \in Xffs}

\* headers["x-forwarded-for"]?.split(",")[0]?.trim() || socket.remoteAddress || "unknown"
CallerKey(c) ==
    LET forwarded == IF "xff" \in DOMAIN c THEN Trim(c.xff[1]) ELSE <<>>
    IN  IF forwarded # <<>> THEN forwarded
        ELSE IF c.remoteAddress # <<>> THEN c.remoteAddress
        ELSE UNKNOWN

\* sendOk(res, data): meta is undefined and left out of the JSON
OkEnvelope(data) == [ok |-> TRUE, data |-> data]

\* sendErr(res, code, message, details, status)
ErrEnvelope(code, status) == [ok |-> FALSE, error |-> code, status |-> status]

\* GET /latest without a record
EmptyEnvelope == OkEnvelope([events |-> <<>>, degraded |-> FALSE])

\* the payload stored in the Map: { ok: true, data }
CachePayloadEmpty(data) == EmptyEnvelope

CachePayload(data) == [ok |-> TRUE, data |-> data]

AUuid == "123e4567-e89b-12d3-a456-426614174000"
ADatetime == "2025-09-01T00:00:00Z"

\* request bodies: text, fileId and referenceDate each absent, well-formed or not
Bodies ==
    {[text |-> <<"a">>], [text |-> <<" ">>], [fileId |-> AUuid],
     [text |-> <<"a">>, referenceDate |-> ADatetime],
     [timezone |-> "UTC"], [text |-> <<>>], [fileId |-> "abc"],
     [text |-> <<>>, fileId |-> AUuid],
     [text |-> <<"a">>, fileId |-> "abc"],
     [text |-> <<"a">>, referenceDate |-> "tomorrow"]}

\* ExtractBody.safeParse(req.body).success
ExtractBodyOk(b) ==
    /\ "text" \in DOMAIN b => Len(b.text) >= 1
    /\ "fileId" \in DOMAIN b => b.fileId = AUuid
    /\ "referenceDate" \in DOMAIN b => b.referenceDate = ADatetime
    /\ \/ "text" \in DOMAIN b /\ b.text # <<>>
       \/ "fileId" \in DOMAIN b /\ b.fileId # ""

\* results extractSmart resolves with
SmartResults ==
    {SmartLLMOnly(LlmSuccessResult(<<>>)),
     SmartLLMOnly(LlmCatchResult(AbortError, LLM_WAIT_MS)),
     SmartLLMOnly(LlmSuccessResult(CleanEvents(<<Event(Iso(1), Undefined)>>, "UTC")))}


----------------------------------------------------------------------------
(* The request as a state machine *)

PipelineInit ==
    /\ apiKey \in BOOLEAN
    /\ op = "none"
    /\ input = Nil
    /\ pc = "idle"
    /\ timer = "none"
    /\ timerMs = 0
    /\ timersCreated = 0
    /\ clearCalls = 0
    /\ genCalls = 0
    /\ respText = <<>>
    /\ hits = <<>>
    /\ llm = Nil
    /\ rules = Nil
    /\ out = Nil
    /\ llmCalls = 0
    /\ thrown = Nil

\* no function is being applied
FnIdle == arg = Nil /\ ret = Nil

\* the server has started: no request yet, the Map is empty
CacheInit ==
    /\ latestByIp = EmptyMap
    /\ reqs = [r \in ReqIds |-> [pc |-> "new"]]
    /\ clock = 0
    /\ completed = <<>>
    /\ got = Nil

Init == PipelineInit /\ FnIdle /\ CacheInit

\* the argument extractLLM is called with
LlmInput == IF op = "extractLLM" THEN input ELSE WithBudget(input, LLM_WAIT_MS)

\* GenCallsAfterFetch when a failed attempt is followed by a second one
GenCallsAfterRetry(n) == n + 2

\* the single fetch of groqGenerateJSON: no loop, no retry around it
GenCallsAfterFetch(n) == n + 1

\* ClearedTimer when the finally block is missing
ClearedTimerNever(t) == t

\* ClearedTimer when the callback of a pending timer still runs
ClearedTimerLate(t) == IF t = "pending" THEN "fired" ELSE t

\* clearTimeout(timeout) in the finally block
ClearedTimer(t) == IF t = "pending" THEN "cleared" ELSE t

\* extractLLM returns r from inside its try block: the finally block runs first
LlmReturns(r) ==
    /\ llm' = r
    /\ timer' = ClearedTimer(timer)
    /\ clearCalls' = clearCalls + 1
    /\ pc' = "llm_ret"

\* groqGenerateJSON rejects with err: the catch block of extractLLM returns
LlmThrows(err) ==
    /\ thrown' = err
    /\ LlmReturns(LlmCatchResult(err, timerMs))

\* extractLLM from its call to its first suspension, called with argument in
LlmStart(in) ==
    /\ llmCalls' = llmCalls + 1
    /\ IF Trim(TextOrEmpty(in)) = <<>>
       THEN /\ llm' = LlmEmptyTextResult
            /\ pc' = "llm_ret"
            /\ UNCHANGED <<timer, timerMs, timersCreated, clearCalls, genCalls, thrown>>
       ELSE /\ timerMs' = TimeoutMs(in)
            /\ timersCreated' = timersCreated + 1
            /\ IF ~apiKey
               THEN /\ thrown' = MissingKeyError
                    /\ llm' = LlmCatchResult(MissingKeyError, TimeoutMs(in))
                    /\ timer' = "cleared"
                    /\ clearCalls' = clearCalls + 1
                    /\ pc' = "llm_ret"
                    /\ UNCHANGED genCalls
               ELSE /\ timer' = "pending"
                    /\ genCalls' = GenCallsAfterFetch(genCalls)
                    /\ pc' = "fetch"
                    /\ UNCHANGED <<llm, clearCalls, thrown>>

\* a caller invokes extractRules: the function runs to its return
CallExtractRules ==
    /\ pc = "idle"
    /\ \E in \in RulesInputs :
         \E hs \in HitLists(normalizeText(Trim(TextOrEmpty(in)))) :
            /\ input' = in
            /\ hits' = IF Trim(TextOrEmpty(in)) = <<>> THEN <<>> ELSE hs
            /\ rules' = extractRules(in, hs)
            /\ out' = extractRules(in, hs)
    /\ op' = "extractRules"
    /\ pc' = "done"
    /\ UNCHANGED <<aside, thrown, llmCalls, apiKey, timer, timerMs, timersCreated, clearCalls, genCalls,
                   respText, llm>>

\* a caller invokes extractLLM
CallExtractLLM ==
    /\ pc = "idle"
    /\ \E in \in LlmInputs : input' = in /\ LlmStart(in)
    /\ op' = "extractLLM"
    /\ UNCHANGED <<aside, apiKey, respText, hits, rules, out>>

\* a caller invokes the LLM-only extractSmart
CallSmartLLMOnly ==
    /\ pc = "idle"
    /\ \E in \in SmartInputs : input' = in /\ LlmStart(WithBudget(in, LLM_WAIT_MS))
    /\ op' = "smartLLMOnly"
    /\ UNCHANGED <<aside, apiKey, respText, hits, rules, out>>

\* a caller invokes the fallback extractSmart
CallSmartFallback ==
    /\ pc = "idle"
    /\ \E in \in SmartInputs : input' = in /\ LlmStart(WithBudget(in, LLM_WAIT_MS))
    /\ op' = "smartFallback"
    /\ UNCHANGED <<aside, apiKey, respText, hits, rules, out>>

\* fetch resolves with a response whose status is 2xx or not
FetchResponds ==
    /\ pc = "fetch"
    /\ timer = "pending"
    /\ \E ok \in BOOLEAN : pc' = IF ok THEN "body" ELSE "errbody"
    /\ UNCHANGED <<aside, thrown, llmCalls, apiKey, op, input, timer, timerMs, timersCreated, clearCalls,
                   genCalls, respText, hits, llm, rules, out>>

\* fetch rejects: the request could not be made
FetchFails ==
    /\ pc = "fetch"
    /\ timer = "pending"
    /\ \E err \in NetworkErrors : LlmThrows(err)
    /\ UNCHANGED <<aside, llmCalls, apiKey, op, input, timerMs, timersCreated, genCalls,
                   respText, hits, rules, out>>

\* the body of a non-2xx response was read: groqGenerateJSON throws
ErrorBodyRead ==
    /\ pc = "errbody"
    /\ timer = "pending"
    /\ LlmThrows(HttpError)
    /\ UNCHANGED <<aside, llmCalls, apiKey, op, input, timerMs, timersCreated, genCalls,
                   respText, hits, rules, out>>

\* the body of a 2xx response was read and is not JSON, or holds no content
BodyUnusable ==
    /\ pc = "body"
    /\ timer = "pending"
    /\ \E err \in {InvalidBodyError, EmptyCompletionError} : LlmThrows(err)
    /\ UNCHANGED <<aside, llmCalls, apiKey, op, input, timerMs, timersCreated, genCalls,
                   respText, hits, rules, out>>

\* the completion arrives: extractLLM runs from the await to its return
CompletionArrives ==
    /\ pc = "body"
    /\ timer = "pending"
    /\ \E resp \in RespTexts :
          /\ respText' = resp
          /\ LlmReturns(LlmFromResponse(LlmInput, resp))
    /\ UNCHANGED <<aside, thrown, llmCalls, apiKey, op, input, timerMs, timersCreated, genCalls,
                   hits, rules, out>>

\* the budget timer fires while the call is pending: controller.abort()
\* rejects fetch or the body read with AbortError; safeText swallows it
TimerFires ==
    /\ pc \in {"fetch", "body", "errbody"}
    /\ timer = "pending"
    /\ thrown' = (IF pc = "errbody" THEN HttpError ELSE AbortError)
    /\ llm' = LlmCatchResult(thrown', timerMs)
    /\ timer' = "fired"
    /\ clearCalls' = clearCalls + 1
    /\ pc' = "llm_ret"
    /\ UNCHANGED <<aside, llmCalls, apiKey, op, input, timerMs, timersCreated, genCalls,
                   respText, hits, rules, out>>

\* the promise of extractLLM resolves for its caller
ReturnLLM ==
    /\ pc = "llm_ret"
    /\ op = "extractLLM"
    /\ out' = llm
    /\ pc' = "done"
    /\ UNCHANGED <<aside, thrown, llmCalls, apiKey, op, input, timer, timerMs, timersCreated, clearCalls,
                   genCalls, respText, hits, llm, rules>>

\* LLM-only extractSmart resumes after its await
SmartLLMOnlyResumes ==
    /\ pc = "llm_ret"
    /\ op = "smartLLMOnly"
    /\ out' = SmartLLMOnly(llm)
    /\ respText' = <<>>
    /\ pc' = "done"
    /\ UNCHANGED <<aside, thrown, llmCalls, apiKey, op, input, timer, timerMs, timersCreated, clearCalls,
                   genCalls, hits, llm, rules>>

\* fallback extractSmart resumes after its await and decides
SmartFallbackResumes ==
    /\ pc = "llm_ret"
    /\ op = "smartFallback"
    /\ respText' = <<>>
    /\ IF LlmUsable(llm)
       THEN out' = llm /\ pc' = "done"
       ELSE out' = out /\ pc' = "rules_call"
    /\ UNCHANGED <<aside, thrown, llmCalls, apiKey, op, input, timer, timerMs, timersCreated, clearCalls,
                   genCalls, hits, llm, rules>>

\* fallback extractSmart runs extractRules(input) and returns its result
SmartFallbackRules ==
    /\ pc = "rules_call"
    /\ \E hs \in HitLists(normalizeText(Trim(TextOrEmpty(input)))) :
          /\ hits' = IF Trim(TextOrEmpty(input)) = <<>> THEN <<>> ELSE hs
          /\ rules' = extractRules(input, hs)
          /\ out' = extractRules(input, hs)
    /\ pc' = "done"
    /\ UNCHANGED <<aside, thrown, llmCalls, apiKey, op, input, timer, timerMs, timersCreated, clearCalls,
                   genCalls, respText, llm>>

Next ==
    \/ CallExtractRules
    \/ CallExtractLLM
    \/ CallSmartLLMOnly
    \/ CallSmartFallback
    \/ FetchResponds
    \/ FetchFails
    \/ ErrorBodyRead
    \/ BodyUnusable
    \/ CompletionArrives
    \/ TimerFires
    \/ ReturnLLM
    \/ SmartLLMOnlyResumes
    \/ SmartFallbackResumes
    \/ SmartFallbackRules

Spec == Init /\ [][Next]_vars


----------------------------------------------------------------------------
(* The HTTP handlers as a state machine *)

\* POST /api/extract with a body ExtractBody rejects: answered at once, and
\* extractSmart is not invoked
PostRejected(r) ==
    /\ reqs[r].pc = "new"
    /\ \E b \in Bodies :
          /\ ~ExtractBodyOk(b)
          /\ reqs' = [reqs EXCEPT ![r] = [pc |-> "rejected", valid |-> ExtractBodyOk(b),
                                          invoked |-> FALSE,
                                          sent |-> ErrEnvelope("E_BAD_INPUT", 422)]]
    /\ UNCHANGED <<pipeline, fnVars, latestByIp, clock, completed, got>>

\* POST /api/extract with a valid body: the handler invokes extractSmart and
\* awaits it
PostAccepted(r) ==
    /\ reqs[r].pc = "new"
    /\ \E b \in Bodies :
          /\ ExtractBodyOk(b)
          /\ reqs' = [reqs EXCEPT ![r] = [pc |-> "awaiting", valid |-> ExtractBodyOk(b),
                                          invoked |-> TRUE]]
    /\ UNCHANGED <<pipeline, fnVars, latestByIp, clock, completed, got>>

\* CacheWrite when an entry, once written, is kept
CacheWriteIfAbsent(m, ip, entry) == IF ip \in DOMAIN m THEN m ELSE MapSet(m, ip, entry)

\* latestByIp.set(ip, entry)
CacheWrite(m, ip, entry) == MapSet(m, ip, entry)

\* extractSmart resolves: the handler resumes, reads the caller key, stores
\* the envelope and answers, in one turn of the event loop
ExtractCompletes(r) ==
    /\ reqs[r].pc = "awaiting"
    /\ \E data \in SmartResults, c \in HttpCallers, now \in {clock, clock + 1} :
          /\ clock' = now
          /\ latestByIp' = CacheWrite(latestByIp, CallerKey(c),
                                      [at |-> now, payload |-> CachePayload(data)])
          /\ reqs' = [reqs EXCEPT ![r] = [pc |-> "done", valid |-> reqs[r].valid,
                                          invoked |-> reqs[r].invoked,
                                          ip |-> CallerKey(c),
                                          sent |-> OkEnvelope(data)]]
    /\ completed' = Append(completed, r)
    /\ UNCHANGED <<pipeline, fnVars, got>>

\* GET /latest
GetLatest ==
    /\ \E c \in HttpCallers :
          got' = [ip |-> CallerKey(c),
                  body |-> IF MapGet(latestByIp, CallerKey(c)) = Nil
                           THEN EmptyEnvelope
                           ELSE MapGet(latestByIp, CallerKey(c)).payload]
    /\ UNCHANGED <<pipeline, fnVars, latestByIp, reqs, clock, completed>>

CacheNext ==
    \/ \E r \in ReqIds : PostRejected(r)
    \/ \E r \in ReqIds : PostAccepted(r)
    \/ \E r \in ReqIds : ExtractCompletes(r)
    \/ GetLatest

\* the server with its environment fixed
ServerInit == Init /\ apiKey

SpecCache == ServerInit /\ [][CacheNext]_vars


----------------------------------------------------------------------------
(* extractLLM called with a budget of any size *)

\* integers around the two limits and the default, and the extremes
Budgets ==
    {-2147483647, -1, 0, 1, MIN_BUDGET_MS - 1, MIN_BUDGET_MS, MIN_BUDGET_MS + 1,
     DEFAULT_BUDGET_MS, MAX_BUDGET_MS - 1, MAX_BUDGET_MS, MAX_BUDGET_MS + 1, 2147483647}

BudgetInputs ==
    {[timezone |-> "UTC", text |-> <<"a">>]}
    \cup {[timezone |-> "UTC", text |-> <<"a">>, budgetMs |-> b] : b \in Budgets}

\* a caller invokes extractLLM with one of these budgets
CallExtractLLMBudget ==
    /\ pc = "idle"
    /\ \E in \in BudgetInputs : input' = in /\ LlmStart(in)
    /\ op' = "extractLLM"
    /\ UNCHANGED <<aside, apiKey, respText, hits, rules, out>>

BudgetNext ==
    \/ CallExtractLLMBudget
    \/ FetchResponds
    \/ FetchFails
    \/ ErrorBodyRead
    \/ BodyUnusable
    \/ CompletionArrives
    \/ TimerFires
    \/ ReturnLLM

SpecBudget == Init /\ [][BudgetNext]_vars


----------------------------------------------------------------------------
(* normalizeText applied to a string, and to its own result *)

NormChars == {" ", "a", "\r", "\n", "\t"}

NormalizeInit ==
    /\ PipelineInit /\ apiKey
    /\ CacheInit
    /\ arg \in {[s |-> x] : x \in SeqsUpTo(NormChars, MaxNormLen)}
    /\ ret = Nil

NormalizeOnce ==
    /\ ret = Nil
    /\ ret' = [once |-> normalizeText(arg.s)]
    /\ UNCHANGED <<pipeline, cacheVars, arg>>

NormalizeAgain ==
    /\ DOMAIN ret = {"once"}
    /\ ret' = [once |-> ret.once, twice |-> normalizeText(ret.once)]
    /\ UNCHANGED <<pipeline, cacheVars, arg>>

NormalizeNext == NormalizeOnce \/ NormalizeAgain

SpecNormalize == NormalizeInit /\ [][NormalizeNext]_vars


----------------------------------------------------------------------------
(* utils/subjectTime.ts: parseSubjectDateRange over date-fns and Date *)

\* a Date is [y, mo, d, h, mi, s] in local time, or Invalid Date
InvalidDate == [invalid |-> TRUE]
IsValidDate(t) == "y" \in DOMAIN t
DateOf(y, mo, d, h, mi, s) == [y |-> y, mo |-> mo, d |-> d, h |-> h, mi |-> mi, s |-> s]

IsLeap(y) == (y % 4 = 0 /\ y % 100 # 0) \/ y % 400 = 0

DaysInMonth(y, mo) ==
    IF mo = 2 THEN (IF IsLeap(y) THEN 29 ELSE 28)
    ELSE IF mo \in {4, 6, 9, 11} THEN 30 ELSE 31

RECURSIVE LexLess(_, _)
LexLess(a, b) ==
    /\ a # <<>>
    /\ \/ Head(a) < Head(b)
       \/ Head(a) = Head(b) /\ LexLess(Tail(a), Tail(b))

Fields(t) == <<t.y, t.mo, t.d, t.h, t.mi, t.s>>

\* a.getTime() < b.getTime(), false when either is NaN
TimeLess(a, b) == IsValidDate(a) /\ IsValidDate(b) /\ LexLess(Fields(a), Fields(b))

\* a <= b on Dates, false when either is NaN
TimeLeq(a, b) == IsValidDate(a) /\ IsValidDate(b) /\ ~LexLess(Fields(b), Fields(a))

\* the month a word names for the token MMMM, 0 if none
MonthOf(word) ==
    CASE word = "January" -> 1 [] word = "February" -> 2 [] word = "March" -> 3
      [] word = "April" -> 4 [] word = "May" -> 5 [] word = "June" -> 6
      [] word = "July" -> 7 [] word = "August" -> 8 [] word = "September" -> 9
      [] word = "October" -> 10 [] word = "November" -> 11 [] word = "December" -> 12
      [] OTHER -> 0

\* the number a string of one or two digits writes
DigitsValue(ds) == IF Len(ds) = 1 THEN ds[1] ELSE 10 * ds[1] + ds[2]

\* a time of day as the subject writes it: digits, colon, digits, optional
\* space, AM or PM
TimeStr(hh, mm, sp, pm) == [hh |-> hh, mm |-> mm, sp |-> sp, pm |-> pm]

\* the token h is an hour from 1 to 12, mm a minute from 0 to 59, and a
\* must follow the minutes at once
TimeParses(t) ==
    /\ DigitsValue(t.hh) \in 1..12
    /\ DigitsValue(t.mm) \in 0..59
    /\ ~t.sp

Hour24(t) == (DigitsValue(t.hh) % 12) + (IF t.pm THEN 12 ELSE 0)

\* date-fns parse(`${mon} ${dayStr} ${timeStr}`, "MMMM d h:mma", ref): the
\* year is that of ref, the day must exist in that month of that year,
\* seconds are 0
dfParse(mon, dayStr, timeStr, ref) ==
    IF /\ MonthOf(mon) # 0
       /\ DigitsValue(dayStr) >= 1
       /\ DigitsValue(dayStr) <= DaysInMonth(ref.y, MonthOf(mon))
       /\ TimeParses(timeStr)
    THEN DateOf(ref.y, MonthOf(mon), DigitsValue(dayStr),
                Hour24(timeStr), DigitsValue(timeStr.mm), 0)
    ELSE InvalidDate

\* date-fns setYear: Date.prototype.setFullYear, in which February 29 of a
\* year without one is March 1
setYear(t, y) ==
    IF ~IsValidDate(t) THEN InvalidDate
    ELSE IF t.d > DaysInMonth(y, t.mo)
         THEN [t EXCEPT !.y = y, !.mo = t.mo + 1, !.d = 1]
         ELSE [t EXCEPT !.y = y]

isBefore(a, b) == TimeLess(a, b)

\* date-fns addYears(t, 1): the same day next year, or the month's last
addYears(t, n) ==
    IF ~IsValidDate(t) THEN InvalidDate
    ELSE IF t.d > DaysInMonth(t.y + n, t.mo)
         THEN [t EXCEPT !.y = t.y + n, !.d = DaysInMonth(t.y + n, t.mo)]
         ELSE [t EXCEPT !.y = t.y + n]

\* new Date(t.getTime() + 60 * 60 * 1000)
PlusOneHour(t) ==
    IF t.h < 23 THEN [t EXCEPT !.h = t.h + 1]
    ELSE IF t.d < DaysInMonth(t.y, t.mo) THEN [t EXCEPT !.h = 0, !.d = t.d + 1]
    ELSE IF t.mo < 12 THEN [t EXCEPT !.h = 0, !.d = 1, !.mo = t.mo + 1]
    ELSE [t EXCEPT !.h = 0, !.d = 1, !.mo = 1, !.y = t.y + 1]

\* String(n).padStart(2, "0")
Pad2(n) == IF n < 10 THEN "0" \o ToString(n) ELSE ToString(n)

toISO(t) ==
    IF ~IsValidDate(t) THEN "NaN-NaN-NaNTNaN:NaN:00"
    ELSE ToString(t.y) \o "-" \o Pad2(t.mo) \o "-" \o Pad2(t.d)
         \o "T" \o Pad2(t.h) \o ":" \o Pad2(t.mi) \o ":00"

\* subject.replace(/–|—/g, "-") on the separator of the two times
DashNormalized(sep) == IF sep \in {"en-dash", "em-dash"} THEN "-" ELSE sep

\* either regular expression matches: a word, a day of one or two digits, two
\* times of one or two digits, a colon and two digits, a hyphen between them;
\* a weekday before and any text after are allowed and not captured
SubjectMatches(s) ==
    /\ "mon" \in DOMAIN s
    /\ DashNormalized(s.sep) = "-"
    /\ Len(s.dayStr) \in 1..2
    /\ \A t \in {s.startStr, s.endStr} : Len(t.hh) \in 1..2 /\ Len(t.mm) = 2

NullResult == [null |-> TRUE]

\* RolledStart when a start in the past is kept
RolledStartNever(start, now) == start

\* if (isBefore(start, now)) start = addYears(start, 1)
RolledStart(start, now) == IF isBefore(start, now) THEN addYears(start, 1) ELSE start

\* the start and the end computed for a subject that matched and whose
\* start parsed
SubjectStart(s, now) ==
    RolledStart(setYear(dfParse(s.mon, s.dayStr, s.startStr, now), now.y), now)

SubjectEnd(s, now) ==
    LET start == SubjectStart(s, now)
        end == setYear(dfParse(s.mon, s.dayStr, s.endStr, now), start.y)
    IN  IF TimeLeq(end, start) THEN PlusOneHour(start) ELSE end

parseSubjectDateRange(s, now) ==
    IF ~SubjectMatches(s) THEN NullResult
    ELSE IF ~IsValidDate(dfParse(s.mon, s.dayStr, s.startStr, now)) THEN NullResult
    ELSE [startISO |-> toISO(SubjectStart(s, now)), endISO |-> toISO(SubjectEnd(s, now))]

MaxYears == 2
FirstYear == 2024
Years == FirstYear..(FirstYear + MaxYears - 1)

\* values of now: before a candidate, at its instant, just after it, the day
\* after February, the end of a year
Nows ==
    UNION {{DateOf(y, 8, 1, 0, 0, 0), DateOf(y, 8, 29, 13, 0, 0), DateOf(y, 8, 29, 13, 0, 30),
            DateOf(y, 3, 1, 0, 0, 0), DateOf(y, 12, 31, 23, 59, 30)} : y \in Years}

SubjectTimes ==
    {TimeStr(<<0, 1>>, <<0, 0>>, FALSE, TRUE), TimeStr(<<2>>, <<0, 0>>, FALSE, TRUE),
     TimeStr(<<1, 2>>, <<3, 0>>, FALSE, FALSE), TimeStr(<<1, 1>>, <<5, 9>>, FALSE, TRUE),
     TimeStr(<<1, 3>>, <<0, 0>>, FALSE, TRUE), TimeStr(<<1>>, <<7, 5>>, FALSE, TRUE),
     TimeStr(<<0>>, <<3, 0>>, FALSE, FALSE), TimeStr(<<1>>, <<0, 0>>, TRUE, TRUE)}

SubjectLine(mon, dayStr, startStr, sep, endStr) ==
    [mon |-> mon, dayStr |-> dayStr, startStr |-> startStr, sep |-> sep, endStr |-> endStr]

\* subjects: every month word, day and pair of times around a hyphen; one
\* line around each other separator; lines of another shape
Subjects ==
    {SubjectLine(m, d, a, "-", b) :
        m \in {"August", "February", "December", "Friday"},
        d \in {<<0>>, <<7>>, <<2, 9>>, <<3, 1>>},
        a \in SubjectTimes, b \in SubjectTimes}
    \cup {SubjectLine("August", <<2, 9>>, TimeStr(<<0, 1>>, <<0, 0>>, FALSE, TRUE), sep,
                      TimeStr(<<0, 2>>, <<0, 0>>, FALSE, TRUE)) :
             sep \in {"en-dash", "em-dash", "to"}}
    \cup {SubjectLine("August", <<2, 9>>, TimeStr(<<1>>, <<0>>, FALSE, TRUE), "-",
                      TimeStr(<<2>>, <<0, 0>>, FALSE, TRUE)),
          [weekday |-> "Friday", mon |-> "August", dayStr |-> <<2, 9>>,
           startStr |-> TimeStr(<<0, 1>>, <<0, 0>>, FALSE, TRUE), sep |-> "-",
           endStr |-> TimeStr(<<0, 2>>, <<0, 0>>, FALSE, TRUE),
           tail |-> "(EDT - America/Port-au-Prince)"],
          [text |-> "other"]}

SubjectInit ==
    /\ PipelineInit /\ apiKey
    /\ CacheInit
    /\ arg \in {[subject |-> s, now |-> n] : s \in Subjects, n \in Nows}
    /\ ret = Nil

CallParseSubject ==
    /\ ret = Nil
    /\ ret' = parseSubjectDateRange(arg.subject, arg.now)
    /\ UNCHANGED <<pipeline, cacheVars, arg>>

SubjectNext == CallParseSubject

SpecSubject == SubjectInit /\ [][SubjectNext]_vars


----------------------------------------------------------------------------
(* Properties *)

Results == {llm, rules, out} \ {Nil}
LlmReturned == llm # Nil
NonEmptyText(in) == Trim(TextOrEmpty(in)) # <<>>

\* the completion held a JSON object that satisfies the schema
CompletionValid ==
    /\ respText # <<>>
    /\ JsonIsObject(extractJsonBlock(respText))
    /\ LlmOutOk(JsonObject(extractJsonBlock(respText)))

\* the candidate events of a valid completion
CompletionEvents == ParsedEvents(JsonObject(extractJsonBlock(respText)))

EndDefined(e) == e.end # Undefined

\* C1: every event returned by extractRules or extractLLM that has an end has
\* a start and an end that parse to finite instants, the end not before the start
C1_EndNotBeforeStart ==
    \A r \in {llm, rules} \ {Nil} :
        \A i \in 1..Len(r.events) :
            EndDefined(r.events[i]) =>
                /\ IsFiniteNum(DateParse(r.events[i].start))
                /\ IsFiniteNum(DateParse(r.events[i].end))
                /\ DateParse(r.events[i].end) >= DateParse(r.events[i].start)

\* extractLLM returned an event that kept its end, from a completion in which
\* another candidate's end was before its start
C1_Witness ==
    /\ pc = "llm_ret"
    /\ CompletionValid
    /\ \E i \in 1..Len(llm.events) : EndDefined(llm.events[i])
    /\ \E i \in 1..Len(CompletionEvents) :
          /\ IsFiniteNum(DateParse(CompletionEvents[i].end))
          /\ IsFiniteNum(DateParse(CompletionEvents[i].start))
          /\ DateParse(CompletionEvents[i].end) < DateParse(CompletionEvents[i].start)

OneWarning(r, code) ==
    /\ "warnings" \in DOMAIN r
    /\ Len(r.warnings) = 1
    /\ r.warnings[1].code = code

\* C2: for a text that is absent or empty once trimmed, extractRules returns
\* no event, degraded = false and the single warning EMPTY_TEXT, and
\* extractLLM returns no event, degraded = true and the single warning EMPTY_TEXT
C2_EmptyText ==
    (input # Nil /\ ~NonEmptyText(input)) =>
        /\ rules # Nil =>
              rules.events = <<>> /\ ~rules.degraded /\ OneWarning(rules, "EMPTY_TEXT")
        /\ llm # Nil =>
              llm.events = <<>> /\ llm.degraded /\ OneWarning(llm, "EMPTY_TEXT")

\* both paths ran on a text of whitespace
C2_Witness ==
    /\ pc = "done"
    /\ "text" \in DOMAIN input
    /\ input.text # <<>>
    /\ ~NonEmptyText(input)
    /\ llm # Nil
    /\ rules # Nil

\* C3: on non-empty text, whenever extractLLM does not get a completion that
\* holds a schema-valid JSON object (no API key, network error, non-2xx,
\* unreadable or empty completion, timeout, text that is not JSON, JSON that
\* violates the schema), it returns no event, degraded = true and one warning
C3_FailuresConverge ==
    (pc = "llm_ret" /\ NonEmptyText(LlmInput) /\ ~CompletionValid) =>
        /\ llm.events = <<>>
        /\ llm.degraded
        /\ "warnings" \in DOMAIN llm
        /\ Len(llm.warnings) = 1
        /\ llm.warnings[1].code \in {"LLM_BAD_JSON", "LLM_TIMEOUT", "LLM_ERROR"}

\* the completion parsed as JSON and violated the schema
C3_Witness ==
    /\ pc = "llm_ret"
    /\ respText # <<>>
    /\ JsonIsObject(extractJsonBlock(respText))
    /\ ~LlmOutOk(JsonObject(extractJsonBlock(respText)))
    /\ llm.degraded

WellFormed(r) ==
    /\ DOMAIN r \in {{"events", "degraded"}, {"events", "degraded", "warnings"}}
    /\ r.degraded \in BOOLEAN
    /\ DOMAIN r.events = 1..Len(r.events)

SmartOps == {"smartLLMOnly", "smartFallback"}

\* C4: whatever the generation call does on a non-empty text, extractLLM and
\* extractSmart return a well-formed result, and in the worst case, the call
\* having failed and the result holding no event, that result is degraded and
\* carries a warning
C4_WorstCaseDegradedWithWarning ==
    (op \in SmartOps \cup {"extractLLM"} /\ out # Nil /\ NonEmptyText(input)) =>
        /\ WellFormed(out)
        /\ (llm.degraded /\ out.events = <<>>) =>
              out.degraded /\ Len(WarningsOrEmpty(out)) >= 1

\* C5: in every result of extractLLM, extractRules and extractSmart,
\* degraded = true implies that there is no event
C5_DegradedImpliesEmpty ==
    \A r \in Results : r.degraded => r.events = <<>>

\* extractSmart returned events from a completion, and not degraded
C5_Witness ==
    /\ op = "smartLLMOnly"
    /\ pc = "done"
    /\ Len(out.events) >= 1
    /\ ~out.degraded

\* C6: no result of extractSmart has zero events, degraded = false and no warning
C6_EmptyIsAnnotated ==
    (op \in SmartOps /\ out # Nil) =>
        ~(out.events = <<>> /\ ~out.degraded /\ WarningsOrEmpty(out) = <<>>)

Contains(ws, w) == \E i \in 1..Len(ws) : ws[i] = w

\* C7: in the fallback extractSmart, when the LLM path failed and the rule
\* path found no event, the result has no event, is degraded and contains the
\* warnings of both paths
C7_BothFailAccumulates ==
    (op = "smartFallback" /\ pc = "done" /\ llm.degraded
     /\ rules # Nil /\ rules.events = <<>>) =>
        /\ out.events = <<>>
        /\ out.degraded
        /\ \A i \in 1..Len(WarningsOrEmpty(llm)) :
              Contains(WarningsOrEmpty(out), WarningsOrEmpty(llm)[i])
        /\ \A i \in 1..Len(WarningsOrEmpty(rules)) :
              Contains(WarningsOrEmpty(out), WarningsOrEmpty(rules)[i])

C9_FallbackToRules ==
    /\ (op = "smartFallback" /\ pc = "rules_call") =>
          (llm.degraded \/ Len(llm.events) = 0)
    /\ (op = "smartFallback" /\ pc = "done") =>
          /\ rules # Nil <=> (llm.degraded \/ Len(llm.events) = 0)
          /\ rules # Nil => out = rules /\ out = extractRules(input, hits)
          /\ rules = Nil => out = llm

\* the LLM path timed out and the rule path found one event
C9_Witness ==
    /\ op = "smartFallback"
    /\ pc = "done"
    /\ timer = "fired"
    /\ OneWarning(llm, "LLM_TIMEOUT")
    /\ Len(out.events) = 1
    /\ out = rules

\* C10: an invocation of extractLLM creates at most one budget timer, and when
\* it has returned the timer it created is not pending: clearTimeout ran
C10_TimerCleared ==
    /\ timersCreated <= 1
    /\ (timersCreated = 0) <=> (timer = "none")
    /\ LlmReturned => timer # "pending" /\ clearCalls = timersCreated

\* extractLLM returned LLM_BAD_JSON and its timer, which had not fired, is cleared
C10_Witness ==
    /\ pc = "llm_ret"
    /\ OneWarning(llm, "LLM_BAD_JSON")
    /\ timersCreated = 1
    /\ timer = "cleared"

\* C11: an invocation of extractLLM calls the generation endpoint at most
\* once, whatever the outcome (failure, timeout, bad JSON), and not at all
\* when the trimmed text is empty; an invocation of extractSmart invokes
\* extractLLM exactly once
C11_SingleAttempt ==
    /\ genCalls <= 1
    /\ genCalls <= llmCalls
    /\ (input # Nil /\ ~NonEmptyText(LlmInput)) => genCalls = 0
    /\ op \in SmartOps => llmCalls = 1
    /\ op = "extractLLM" => llmCalls = 1
    /\ op = "extractRules" => llmCalls = 0

\* extractSmart returned after its one call ended in LLM_BAD_JSON
C11_Witness ==
    /\ op \in SmartOps
    /\ pc = "done"
    /\ OneWarning(llm, "LLM_BAD_JSON")
    /\ genCalls = 1
    /\ llmCalls = 1

\* extractRules is synchronous: the step from the fallback's call of it to its
\* return, as a step of pc (SmartFallbackRules is the one action taking it,
\* and is enabled whenever pc = "rules_call")
RulesCallReturns == pc = "rules_call" /\ pc' = "done"

\* the scheduling the event loop gives a request: a pending timer fires
\* unless it is cleared, and a resolved promise resumes the function awaiting it
LiveSpec ==
    /\ Init
    /\ [][Next]_vars
    /\ WF_vars(TimerFires)
    /\ WF_vars(SmartLLMOnlyResumes)
    /\ WF_vars(SmartFallbackResumes)
    /\ WF_pc(RulesCallReturns)

\* the generation call is pending and nothing of its answer has been used
CallUnanswered == pc \in {"fetch", "body"}

CompletionHasEvents ==
    /\ respText # <<>>
    /\ JsonIsObject(extractJsonBlock(respText))
    /\ JsonObject(extractJsonBlock(respText)).eventsKind = "array"

\* C13: schema validation is all-or-nothing: when one event object of the
\* payload violates the schema (empty title, non-boolean allDay, confidence
\* outside [0,1] or not a number, empty-string start or end), extractLLM
\* returns no event and the single warning LLM_BAD_JSON, whatever the other
\* event objects are
C13_SchemaAllOrNothing ==
    (pc = "llm_ret" /\ CompletionHasEvents
     /\ \E i \in 1..Len(CompletionEvents) : ~LlmEventOk(CompletionEvents[i])) =>
        /\ llm.events = <<>>
        /\ llm.degraded
        /\ OneWarning(llm, "LLM_BAD_JSON")

\* the payload held an event that satisfies the schema and has a parseable
\* start, next to one that violates the schema: nothing was returned
C13_Witness ==
    /\ pc = "llm_ret"
    /\ CompletionHasEvents
    /\ Len(CompletionEvents) = 2
    /\ \E i \in 1..2 :
          /\ LlmEventOk(CompletionEvents[i])
          /\ IsFiniteNum(DateParse(CompletionEvents[i].start))
    /\ \E i \in 1..2 : ~LlmEventOk(CompletionEvents[i])
    /\ llm.events = <<>>
    /\ OneWarning(llm, "LLM_BAD_JSON")

\* extractLLM returned what it computed from a completion
FromCompletion == pc = "llm_ret" /\ respText # <<>>

\* C14, as stated: extractLLM returns LLM_BAD_JSON only when the model output
\* is not parseable as JSON, so a payload that parses as a JSON object, such
\* as {"events":[{"title":""}]}, never produces it
C14_BadJsonOnlyUnparseable ==
    (FromCompletion /\ OneWarning(llm, "LLM_BAD_JSON")) =>
        ~JsonIsObject(extractJsonBlock(respText))

\* C14, amended: extractLLM returns LLM_BAD_JSON exactly when the extracted
\* text is not a JSON object that satisfies the schema (an empty title is a
\* schema violation); a schema-valid payload none of whose events has a usable
\* start gives no event, degraded = false and LLM_OK, which the LLM-only
\* extractSmart turns into a degraded result ending in NO_RETURN_EVENT
C14_BadJsonIffInvalid ==
    /\ FromCompletion =>
          /\ OneWarning(llm, "LLM_BAD_JSON") <=> ~CompletionValid
          /\ (CompletionValid
              /\ \A i \in 1..Len(CompletionEvents) : SanitizeDrops(CompletionEvents[i])) =>
                 /\ llm.events = <<>>
                 /\ ~llm.degraded
                 /\ OneWarning(llm, "LLM_OK")
    /\ (op = "smartLLMOnly" /\ pc = "done" /\ llm.events = <<>> /\ ~llm.degraded) =>
          /\ out.degraded
          /\ out.warnings[Len(out.warnings)].code = "NO_RETURN_EVENT"

\* a schema-valid payload whose one event has no start: extractLLM returned
\* no event with LLM_OK to the LLM-only extractSmart
C14_Witness ==
    /\ op = "smartLLMOnly"
    /\ FromCompletion
    /\ CompletionValid
    /\ Len(CompletionEvents) = 1
    /\ CompletionEvents[1].start = Undefined
    /\ llm.events = <<>>
    /\ OneWarning(llm, "LLM_OK")

CallerKeys == {CallerKey(c) : c \in HttpCallers}

\* the requests of key k whose extraction completed, in completion order
RECURSIVE CompletedFor(_, _)
CompletedFor(k, rs) ==
    IF rs = <<>> THEN <<>>
    ELSE IF reqs[Head(rs)].ip = k
         THEN <<Head(rs)>> \o CompletedFor(k, Tail(rs))
         ELSE CompletedFor(k, Tail(rs))

\* C15: under any interleaving of POST /api/extract requests, a request
\* writes the cache only when its extraction completes and only the entry of
\* its own caller key; the entry of a key holds the envelope sent to the
\* request of that key whose extraction completed last, and none when no such
\* request completed; GET /latest answers with the entry of its caller's key
C15_LastWriteWins ==
    /\ [][\A k \in CallerKeys :
             MapGet(latestByIp', k) # MapGet(latestByIp, k) =>
                \E r \in ReqIds :
                    /\ reqs[r].pc = "awaiting"
                    /\ reqs'[r].pc = "done"
                    /\ reqs'[r].ip = k
                    /\ \A q \in ReqIds \ {r} : reqs'[q] = reqs[q]]_vars
    /\ [](\A k \in CallerKeys :
             LET done == CompletedFor(k, completed)
             IN  IF done = <<>>
                 THEN MapGet(latestByIp, k) = Nil
                 ELSE MapGet(latestByIp, k).payload = reqs[done[Len(done)]].sent)
    /\ [][got' # got =>
             got'.body = IF MapGet(latestByIp, got'.ip) = Nil
                         THEN EmptyEnvelope
                         ELSE MapGet(latestByIp, got'.ip).payload]_vars

\* two requests of one key completed, the higher-numbered first, with
\* different results, and GET /latest answered that key with the envelope of
\* the later completion
C15_Witness ==
    /\ Len(completed) >= 2
    /\ completed[1] > completed[2]
    /\ reqs[completed[1]].ip = reqs[completed[2]].ip
    /\ reqs[completed[1]].sent # reqs[completed[2]].sent
    /\ got # Nil
    /\ got.ip = reqs[completed[2]].ip
    /\ got.body = reqs[completed[2]].sent

\* C16: normalizeText is idempotent, normalizeText(normalizeText(x)) =
\* normalizeText(x) for every string x; its output holds no carriage return
\* and no tab and neither starts nor ends with whitespace; the empty string
\* maps to the empty string
C16_NormalizeIdempotent ==
    /\ "once" \in DOMAIN ret =>
          /\ \A i \in 1..Len(ret.once) : ret.once[i] \notin {"\r", "\t"}
          /\ ret.once # <<>> =>
                Head(ret.once) \notin WS /\ ret.once[Len(ret.once)] \notin WS
          /\ arg.s = <<>> => ret.once = <<>>
    /\ "twice" \in DOMAIN ret => ret.twice = ret.once

\* applied twice to a string with a carriage return before a line feed, a tab
\* inside and whitespace at both ends
C16_Witness ==
    /\ "twice" \in DOMAIN ret
    /\ Len(arg.s) >= 3
    /\ \E i \in 1..(Len(arg.s) - 1) : arg.s[i] = "\r" /\ arg.s[i + 1] = "\n"
    /\ ret.once # arg.s
    /\ ret.once # <<>>

\* parseSubjectDateRange returned an object
SubjectParsed == ret # Nil /\ ret # NullResult

\* the start of the subject in the year of now
CurrentYearStart == dfParse(arg.subject.mon, arg.subject.dayStr, arg.subject.startStr, arg.now)

\* C17: the start parseSubjectDateRange returns is the subject's month, day
\* and time in the year of now, unless that instant is before now: then it
\* is that instant moved forward by one year, never more; the returned start
\* is never before now and its year is at most one after the year of now
C17_StartRollsOneYear ==
    SubjectParsed =>
        \E start \in {CurrentYearStart, addYears(CurrentYearStart, 1)} :
            /\ ret.startISO = toISO(start)
            /\ CurrentYearStart.y = arg.now.y
            /\ start = CurrentYearStart <=> ~TimeLess(CurrentYearStart, arg.now)
            /\ ~TimeLess(start, arg.now)
            /\ start.y - arg.now.y \in {0, 1}
            /\ <<start.mo, start.h, start.mi>> =
                  <<CurrentYearStart.mo, CurrentYearStart.h, CurrentYearStart.mi>>

\* 'August 29, 01:00PM - 2:00PM' with now half a minute after 13:00 on
\* August 29: the start is rolled to the next year
C17_Witness ==
    /\ SubjectParsed
    /\ arg.subject.mon = "August"
    /\ arg.now = DateOf(FirstYear, 8, 29, 13, 0, 30)
    /\ ret.startISO = "2025-08-29T13:00:00"

\* the month, the day and the given time of a matched subject parse
ComponentParses(timeStr) ==
    IsValidDate(dfParse(arg.subject.mon, arg.subject.dayStr, timeStr, arg.now))

\* C18: parseSubjectDateRange returns null, and no {startISO, endISO} object,
\* whenever the subject does not match the pattern or its month, its day, its
\* start time or its end time cannot be parsed
C18_NullOnUnparseable ==
    ret # Nil =>
        IF ~SubjectMatches(arg.subject) THEN ret = NullResult
        ELSE (~ComponentParses(arg.subject.startStr)
              \/ ~ComponentParses(arg.subject.endStr)) => ret = NullResult

\* C19: no event returned by extractLLM has a start that fails to parse as a
\* timestamp: a schema-valid candidate whose start is absent, null or not a
\* parseable date is dropped, and the other candidates of the payload are kept
C19_StartParses ==
    (FromCompletion /\ CompletionValid) =>
        /\ \A i \in 1..Len(llm.events) : IsFiniteNum(DateParse(llm.events[i].start))
        /\ Len(llm.events) =
              Cardinality({i \in 1..Len(CompletionEvents) :
                              IsFiniteNum(DateParse(CompletionEvents[i].start))})

\* the candidate has a start: neither absent nor null
HasStart(e) == e.start \notin {Undefined, Null}

\* the candidate has an end: neither absent nor null
HasEnd(e) == e.end \notin {Undefined, Null}

\* C20: a candidate that extractLLM keeps and whose end is present but
\* unparseable or earlier than its start becomes an event without end and with
\* its start unchanged: the end is never clamped, start and end are never
\* swapped; an end that parses and is not before the start is passed through
C20_EndDroppedNotClamped ==
    (FromCompletion /\ CompletionValid) =>
        LET kept == SelectSeq(CompletionEvents, HasStart)
        IN  /\ Len(llm.events) = Len(kept)
            /\ \A i \in 1..Len(kept) :
                  /\ llm.events[i].start = kept[i].start
                  /\ llm.events[i].end =
                        IF /\ HasEnd(kept[i])
                           /\ IsFiniteNum(DateParse(kept[i].end))
                           /\ IsFiniteNum(DateParse(kept[i].start))
                           /\ DateParse(kept[i].end) >= DateParse(kept[i].start)
                        THEN kept[i].end
                        ELSE Undefined

\* one payload held a candidate whose end is before its start and a candidate
\* whose end is after its start: both were kept, the first without end
C20_Witness ==
    /\ FromCompletion
    /\ CompletionValid
    /\ Len(CompletionEvents) = 2
    /\ Len(llm.events) = 2
    /\ \E i \in 1..2 :
          /\ IsFiniteNum(DateParse(CompletionEvents[i].end))
          /\ IsFiniteNum(DateParse(CompletionEvents[i].start))
          /\ DateParse(CompletionEvents[i].end) < DateParse(CompletionEvents[i].start)
          /\ llm.events[i].end = Undefined
          /\ llm.events[i].start = CompletionEvents[i].start
    /\ \E i \in 1..2 :
          /\ llm.events[i].end # Undefined
          /\ llm.events[i].end = CompletionEvents[i].end

\* the generation call threw and the catch block of extractLLM returned
CallThrew == pc = "llm_ret" /\ thrown # Nil

TimeoutMessage == "llm timeout after " \o ToString(timerMs) \o "ms"

MinOf(a, b) == IF a <= b THEN a ELSE b
MaxOf(a, b) == IF a >= b THEN a ELSE b

\* C22: for every integer budgetMs passed to extractLLM, zero, negative and
\* very large ones included, the delay of the budget timer is
\* min(max(budgetMs, 1000), 20000), which lies in [1000, 20000]; the delay is
\* 6000 when budgetMs is absent; whatever the budget, extractLLM returns a
\* result and never rejects
C22_BudgetClamped ==
    /\ (op = "extractLLM" /\ timersCreated = 1) =>
          /\ timerMs >= 1000 /\ timerMs <= 20000
          /\ "budgetMs" \in DOMAIN input =>
                timerMs = MinOf(MaxOf(input.budgetMs, 1000), 20000)
          /\ "budgetMs" \notin DOMAIN input => timerMs = 6000
    /\ (op = "extractLLM" /\ NonEmptyText(input)) => timersCreated = 1
    /\ (op = "extractLLM" /\ pc \in {"llm_ret", "done"}) => WellFormed(llm)
    /\ (op = "extractLLM" /\ pc = "done") => out = llm

\* extractLLM, called with a negative budget, returned events after its
\* timer was created with 1000 ms
C22_Witness ==
    /\ op = "extractLLM"
    /\ pc = "done"
    /\ "budgetMs" \in DOMAIN input
    /\ input.budgetMs < 0
    /\ timerMs = 1000
    /\ Len(out.events) >= 1

\* C23: every result of extractRules is either empty with a warning or
\* non-empty without warnings: none has zero events and no warning, not even
\* for a non-empty text in which no date phrase is found
C23_EmptyWithWarningOrPopulated ==
    rules # Nil =>
        IF rules.events = <<>>
        THEN Len(WarningsOrEmpty(rules)) >= 1
        ELSE WarningsOrEmpty(rules) = <<>>

\* the hit has an end: endISO is neither undefined nor the empty string
HitHasEnd(h) == h.endISO \notin {Undefined, ""}

\* the hit passes the checks: its start parses, and its end, if it has one,
\* parses and is not before the start
HitKept(h) ==
    /\ h.startISO \in IsoStrings
    /\ HitHasEnd(h) =>
          /\ h.endISO \in IsoStrings
          /\ DateParse(h.endISO) >= DateParse(h.startISO)

\* C24: extractRules maps hits to events one-to-one and in hit order: each hit
\* whose startISO parses, whose endISO, if present, parses, and that is not
\* dropped for end < start yields exactly one event with start = hit.startISO,
\* end = hit.endISO (undefined when the hit has none), confidence 0.75, source
\* "rules" and the caller's timezone; the other hits yield no event; the
\* result has degraded = false
C24_HitsToEvents ==
    (rules # Nil /\ NonEmptyText(input)) =>
        LET kept == SelectSeq(hits, HitKept)
        IN  /\ ~rules.degraded
            /\ Len(rules.events) = Len(kept)
            /\ \A i \in 1..Len(kept) :
                  /\ rules.events[i].start = kept[i].startISO
                  /\ rules.events[i].end =
                        IF HitHasEnd(kept[i]) THEN kept[i].endISO ELSE Undefined
                  /\ rules.events[i].confidence = 75
                  /\ rules.events[i].source = "rules"
                  /\ rules.events[i].timezone = input.timezone

\* two hits with different starts, the second with an end, gave two events
\* in the order of the hits
C24_Witness ==
    /\ op = "extractRules"
    /\ rules # Nil
    /\ Len(hits) = 2
    /\ Len(rules.events) = 2
    /\ hits[1].startISO # hits[2].startISO
    /\ rules.events[1].end = Undefined
    /\ rules.events[2].end = hits[2].endISO
    /\ rules.events[2].end # Undefined

\* C25: every event returned by extractLLM has source "llm", the timezone the
\* caller supplied, and a confidence in [0,1]: the confidence the model
\* declared when it is a number, 0.6 when the candidate has none or one that
\* is not a number
C25_LlmEventFields ==
    /\ llm # Nil =>
          \A i \in 1..Len(llm.events) :
              /\ llm.events[i].source = "llm"
              /\ llm.events[i].timezone = input.timezone
              /\ llm.events[i].confidence >= 0
              /\ llm.events[i].confidence <= 100
    /\ (FromCompletion /\ CompletionValid) =>
          LET kept == SelectSeq(CompletionEvents, HasStart)
          IN  /\ Len(llm.events) = Len(kept)
              /\ \A i \in 1..Len(kept) :
                    llm.events[i].confidence =
                        IF kept[i].confidence.kind = "number"
                        THEN kept[i].confidence.val
                        ELSE 60

\* one payload held a candidate declaring confidence 0.5 and a candidate
\* declaring none: both were returned, with 0.5 and with 0.6
C25_Witness ==
    /\ FromCompletion
    /\ CompletionValid
    /\ Len(llm.events) = 2
    /\ \E i, j \in 1..2 :
          /\ CompletionEvents[i].confidence = NumConfidence(50)
          /\ llm.events[i].confidence = 50
          /\ CompletionEvents[j].confidence = NoConfidence
          /\ llm.events[j].confidence = 60
    /\ input.timezone = "America/Toronto"

\* the text starts with "{" and ends with "}"
LooksBare(t) == t # <<>> /\ t[1].t = "{" /\ t[Len(t)].t = "}"

Fences(t) == {i \in 1..Len(t) : t[i].t = "fence"}

\* the text holds a fenced code block: an opening and a closing fence
HasFencedBlock(t) == \E i, j \in Fences(t) : i < j

\* what stands between the first fence and the next one, without the tag
\* json and without the whitespace around it
FirstFencedContents(t) ==
    LET i == CHOOSE x \in Fences(t) : \A y \in Fences(t) : x <= y
        j == CHOOSE x \in Fences(t) \ {i} : \A y \in Fences(t) \ {i} : x <= y
        tagged == i + 1 < j /\ t[i + 1].t = "json"
    IN  TrimToks(SubSeq(t, IF tagged THEN i + 2 ELSE i + 1, j - 1))

\* the substring from the first "{" to the last "}", <<>> if there is none
BraceSpan(t) ==
    LET O == {i \in 1..Len(t) : t[i].t = "{"}
        C == {i \in 1..Len(t) : t[i].t = "}"}
    IN  IF O = {} \/ C = {} THEN <<>>
        ELSE SubSeq(t, CHOOSE x \in O : \A y \in O : x <= y,
                       CHOOSE x \in C : \A y \in C : x >= y)

\* C26: extractJsonBlock applies its recovery steps in strict priority order
\* on the trimmed output: (a) a text that starts with "{" and ends with "}" is
\* returned verbatim, even if it contains a code fence; (b) otherwise the
\* contents of the first fenced code block are returned; (c) otherwise the
\* substring from the first "{" to the last "}" is returned if it parses as
\* JSON; (d) otherwise the trimmed text is returned unchanged, and extractLLM
\* returns LLM_BAD_JSON
C26_JsonBlockPriority ==
    FromCompletion =>
        LET t == TrimToks(respText)
            j == extractJsonBlock(respText)
        IN  IF LooksBare(t) THEN j = t
            ELSE IF HasFencedBlock(t) THEN j = FirstFencedContents(t)
            ELSE IF BraceSpan(t) # <<>> /\ JsonParses(BraceSpan(t)) THEN j = BraceSpan(t)
            ELSE /\ j = t
                 /\ llm.events = <<>>
                 /\ OneWarning(llm, "LLM_BAD_JSON")

\* a completion that starts with "{", ends with "}" and holds a fenced block
\* with a valid payload was taken verbatim and ended in LLM_BAD_JSON
C26_Witness ==
    /\ FromCompletion
    /\ LooksBare(TrimToks(respText))
    /\ HasFencedBlock(TrimToks(respText))
    /\ JsonIsObject(FirstFencedContents(TrimToks(respText)))
    /\ OneWarning(llm, "LLM_BAD_JSON")

\* minutes since midnight of the time of day a parsed time string writes
MinuteOfDay(timeStr) == 60 * Hour24(timeStr) + DigitsValue(timeStr.mm)

\* C27: whenever parseSubjectDateRange returns a range, endISO is strictly
\* after startISO: when the end time is equal to or before the start time
\* (ranges that cross midnight included) the end is exactly the start plus 60
\* minutes; otherwise the end is the parsed end time on the day and in the
\* year of the start, rolled forward or not
C27_EndAfterStart ==
    SubjectParsed =>
        \E start \in {CurrentYearStart, addYears(CurrentYearStart, 1)} :
            LET endStr == arg.subject.endStr
                later == /\ TimeParses(endStr)
                         /\ MinuteOfDay(endStr) > MinuteOfDay(arg.subject.startStr)
                end == IF later
                       THEN [start EXCEPT !.h = Hour24(endStr), !.mi = DigitsValue(endStr.mm)]
                       ELSE PlusOneHour(start)
            IN  /\ ret.startISO = toISO(start)
                /\ ret.endISO = toISO(end)
                /\ TimeLess(start, end)

\* the warning strings the model put in the payload of a valid completion
PayloadWarnings == JsonObject(extractJsonBlock(respText)).warnings

LlmOk == Warning("LLM_OK", "llm success")

HasWarning(r, code) ==
    \E i \in 1..Len(WarningsOrEmpty(r)) : r.warnings[i].code = code

\* C29: in the race between the generation response and the budget timer,
\* exactly one decides the outcome of an invocation of extractLLM: when the
\* completion is received while the timer is pending, the result is computed
\* from it, is never LLM_TIMEOUT, and the timer is cleared and never fires;
\* the result is LLM_TIMEOUT only if the timer fired while the call was pending
C29_ExactlyOneDecides ==
    /\ [][(respText = <<>> /\ respText' # <<>>) =>
             /\ timer = "pending"
             /\ timer' = "cleared"
             /\ llm' = LlmFromResponse(LlmInput, respText')
             /\ ~HasWarning(llm', "LLM_TIMEOUT")
             /\ thrown' = Nil]_vars
    /\ [][(timer = "pending" /\ timer' = "fired") =>
             /\ pc \in {"fetch", "body", "errbody"}
             /\ llm = Nil
             /\ respText' = <<>>]_vars
    /\ [][(timer \in {"cleared", "fired"}) => (timer' = timer)]_vars
    /\ [](timer = "fired" => respText = <<>>)
    /\ [](pc = "llm_ret" /\ respText # <<>> => timer = "cleared")
    /\ [](\A r \in Results :
             HasWarning(r, "LLM_TIMEOUT") => timer = "fired" /\ thrown = AbortError)

\* the completion arrived while the timer was pending: events were returned
\* from it, the timer is cleared and nothing was thrown
C29_Witness ==
    /\ pc = "llm_ret"
    /\ respText # <<>>
    /\ timer = "cleared"
    /\ thrown = Nil
    /\ Len(llm.events) >= 1
    /\ ~HasWarning(llm, "LLM_TIMEOUT")

\* request r is answered
Answered(r) == reqs[r].pc \in {"rejected", "done"}

\* C30: a POST /api/extract whose body fails validation is answered with
\* E_BAD_INPUT, leaves the cache unchanged and does not invoke extractSmart; a
\* valid POST writes the cache exactly once, under its own key, only when
\* extractSmart has completed, with the data it sends in the response; GET
\* /latest never writes the cache and answers a key without entry with an
\* empty envelope that is not degraded
C30_HandlersFrame ==
    /\ [](\A r \in ReqIds :
             reqs[r].pc # "new" =>
                IF reqs[r].valid
                THEN reqs[r].invoked /\ reqs[r].pc \in {"awaiting", "done"}
                ELSE /\ reqs[r].pc = "rejected"
                     /\ ~reqs[r].invoked
                     /\ reqs[r].sent = [ok |-> FALSE, error |-> "E_BAD_INPUT", status |-> 422])
    /\ [][\A r \in ReqIds :
             /\ (reqs'[r].pc = "rejected" /\ reqs[r].pc = "new") => latestByIp' = latestByIp
             /\ Answered(r) => reqs'[r] = reqs[r]
             /\ (reqs[r].pc = "awaiting" /\ reqs'[r] # reqs[r]) =>
                   /\ reqs'[r].pc = "done"
                   /\ reqs'[r].sent.ok
                   /\ latestByIp' =
                         MapSet(latestByIp, reqs'[r].ip,
                                [at |-> clock',
                                 payload |-> [ok |-> TRUE, data |-> reqs'[r].sent.data]])]_vars
    /\ [][latestByIp' # latestByIp =>
             \E r \in ReqIds : reqs[r].pc = "awaiting" /\ reqs'[r].pc = "done"]_vars
    /\ [](Cardinality(DOMAIN latestByIp) <= Len(completed)
          /\ Len(completed) = Cardinality({r \in ReqIds : reqs[r].pc = "done"}))
    /\ [][got' # got =>
             /\ latestByIp' = latestByIp
             /\ reqs' = reqs
             /\ got'.ip \notin DOMAIN latestByIp =>
                   got'.body = [ok |-> TRUE, data |-> [events |-> <<>>, degraded |-> FALSE]]]_vars

\* one request was rejected and one completed; the Map holds the single entry
\* of the completed one, and GET /latest answered another key with the empty
\* envelope
C30_Witness ==
    /\ \E r \in ReqIds : reqs[r].pc = "rejected"
    /\ \E r \in ReqIds :
          /\ reqs[r].pc = "done"
          /\ DOMAIN latestByIp = {reqs[r].ip}
          /\ latestByIp[reqs[r].ip].payload = reqs[r].sent
    /\ got # Nil
    /\ got.ip \notin DOMAIN latestByIp
    /\ got.body.data.events = <<>>
    /\ ~got.body.data.degraded


====
